---- MODULE Spec2Model ----
(***************************************************************************)
(* Model of ibmcloudvercel: credential resolution (sdk/auth.py), source    *)
(* archival and upload (sdk/cos.py) and the deployment pipeline            *)
(* (deploy_ibm.py).                                                        *)
(*                                                                         *)
(* Text (file names, deployment ids, object keys, patterns) is a sequence  *)
(* of one-character strings, so that formatting, concatenation and glob    *)
(* matching are computed character by character.  Opaque secrets (API      *)
(* keys, tokens, profile ids) are plain strings.                           *)
(***************************************************************************)
EXTENDS Integers, Sequences, FiniteSets, TLC

VARIABLES
    args,       \* inputs of the function call under test (pure-function specifications)
    result,     \* its outcome, Pending before the call
    cfg,        \* per run: the loaded configuration and process environment
    pc,         \* per run: position in deploy_ibm.main
    loc,        \* per run: local variables of main / upload_source_code
    steps,      \* per run: the pipeline steps started so far, in order
    exitCode,   \* per run: return value of main, NoExit while running
    clock,      \* seconds elapsed on the UTC wall clock since StartTime
    tmpFiles,   \* local scratch directory: archive path -> archive content
    bucket,     \* object storage: object key -> stored content
    sched       \* how the runs are started: "serial" or "parallel"

vars == <<args, result, cfg, pc, loc, steps, exitCode, clock, tmpFiles, bucket, sched>>

pipeVars == <<cfg, pc, loc, steps, exitCode, clock, tmpFiles, bucket, sched>>

callVars == <<args, result>>

---------------------------------------------------------------------------
(* Python values *)

PyNone == "<None>"

Pending == [status |-> "pending"]

\* Mutant: an "is not None" test where the code tests truthiness.
NotNoneTruthy(x) == x # PyNone

\* Python truthiness of an optional string: None and "" are falsy.
Truthy(x) == x # PyNone /\ x # ""

Return(value, events) ==
    [status |-> "returned", exc |-> "none", value |-> value, events |-> events]

\* No credential object: what the caller holds when the call raised.
NoCred == [type |-> "none", secret |-> PyNone]

Raise(kind, events) ==
    [status |-> "raised", exc |-> kind, value |-> NoCred, events |-> events]

Count(seq, e) == Cardinality({i \in DOMAIN seq : seq[i] = e})

---------------------------------------------------------------------------
(* sdk/auth.py *)

EnvNames == {"VERCEL_OIDC_TOKEN", "IBM_CLOUD_API_KEY"}

getenv(env, name) == env[name]

IAMAuthenticator(apikey) == [type |-> "IAMAuthenticator", secret |-> apikey]

BearerTokenAuthenticator(bearer_token) ==
    [type |-> "BearerTokenAuthenticator", secret |-> bearer_token]

EvPost == "requests.post:/identity/token"

EvGetKey == "getenv:IBM_CLOUD_API_KEY"

EvGetOidc == "getenv:VERCEL_OIDC_TOKEN"

EvIam == "IAMAuthenticator"

EvBearer == "BearerTokenAuthenticator"

\* What the token endpoint can answer to the single POST.
\*   transport_error : requests.post raises (connection error, timeout)
\*   status_error    : non-2xx, raise_for_status raises HTTPError
\*   not_json_reqexc : 2xx, body is not JSON, JSONDecodeError is a RequestException
\*   not_json_value  : 2xx, body is not JSON, JSONDecodeError is only a ValueError
\*   not_object      : 2xx, JSON body that is not an object (no .get)
\*   object          : 2xx, JSON object; access_token is absent (None), "" or a token
Responses ==
    { [kind |-> k, access_token |-> PyNone] :
        k \in {"transport_error", "status_error", "not_json_reqexc",
               "not_json_value", "not_object"} }
    \cup { [kind |-> "object", access_token |-> t] : t \in {PyNone, "", "iam-access-token"} }

create_iam_authenticator(api_key, env) ==
    LET fromEnv == api_key = PyNone
        key == IF fromEnv THEN getenv(env, "IBM_CLOUD_API_KEY") ELSE api_key
        ev == IF fromEnv THEN <<EvGetKey>> ELSE <<>>
    IN  IF ~Truthy(key)
        THEN Raise("ValueError", ev)
        ELSE Return(IAMAuthenticator(key), ev \o <<EvIam>>)

\* The try body of the exchange (lines 136-167): the exception class it raises,
\* "none" when it reaches the return.
ExchangeBody(response) ==
    CASE response.kind = "transport_error" -> "ConnectionError"
      [] response.kind = "status_error" -> "HTTPError"
      [] response.kind = "not_json_reqexc" -> "JSONDecodeError"
      [] response.kind = "not_json_value" -> "ValueError"
      [] response.kind = "not_object" -> "AttributeError"
      [] OTHER -> IF ~Truthy(response.access_token) THEN "RuntimeError" ELSE "none"

\* requests.exceptions.RequestException and its subclasses.
IsRequestException(cls) == cls \in {"ConnectionError", "HTTPError", "JSONDecodeError"}

UnwrappedExchangeHandler(cls) == cls

\* The except clauses (lines 169-172): RequestException and KeyError are wrapped
\* in RuntimeError, every other class propagates unchanged.
ExchangeHandler(cls) ==
    IF IsRequestException(cls) \/ cls = "KeyError" THEN "RuntimeError" ELSE cls

create_iam_authenticator_oidc(oidc_token, trusted_profile_id, response) ==
    IF ~Truthy(oidc_token) THEN Raise("ValueError", <<>>)
    ELSE IF ~Truthy(trusted_profile_id) THEN Raise("ValueError", <<>>)
    ELSE LET cls == ExchangeBody(response)
         IN  IF cls = "none"
             THEN Return(BearerTokenAuthenticator(response.access_token),
                         <<EvPost, EvBearer>>)
             ELSE Raise(ExchangeHandler(cls), <<EvPost>>)

\* Mutant: the OIDC branch is taken on the token alone.
TokenOnlyUseOidc(oidc_token, trusted_profile_id) == oidc_token # PyNone /\ oidc_token # ""

\* The condition under which get_authenticator takes the OIDC branch.
UseOidc(oidc_token, trusted_profile_id) ==
    Truthy(oidc_token) /\ Truthy(trusted_profile_id)

\* Mutant: a usable API key is taken before the OIDC token is looked at.
KeyFirstGetAuthenticator(trusted_profile_id, api_key, oidc_token, env, response) ==
    LET keyFromEnv == api_key = PyNone
        key == IF keyFromEnv THEN getenv(env, "IBM_CLOUD_API_KEY") ELSE api_key
        ev0 == IF keyFromEnv THEN <<EvGetKey>> ELSE <<>>
        oidcFromEnv == oidc_token = PyNone
        tok == IF oidcFromEnv THEN getenv(env, "VERCEL_OIDC_TOKEN") ELSE oidc_token
        ev1 == ev0 \o (IF oidcFromEnv THEN <<EvGetOidc>> ELSE <<>>)
    IN  IF Truthy(key)
        THEN LET r == create_iam_authenticator(key, env)
             IN  [r EXCEPT !.events = ev0 \o @]
        ELSE IF UseOidc(tok, trusted_profile_id)
        THEN LET r == create_iam_authenticator_oidc(tok, trusted_profile_id, response)
             IN  [r EXCEPT !.events = ev1 \o @]
        ELSE Raise("ValueError", ev1)

get_authenticator(trusted_profile_id, api_key, oidc_token, env, response) ==
    LET oidcFromEnv == oidc_token = PyNone
        tok == IF oidcFromEnv THEN getenv(env, "VERCEL_OIDC_TOKEN") ELSE oidc_token
        ev1 == IF oidcFromEnv THEN <<EvGetOidc>> ELSE <<>>
    IN  IF UseOidc(tok, trusted_profile_id)
        THEN LET r == create_iam_authenticator_oidc(tok, trusted_profile_id, response)
             IN  [r EXCEPT !.events = ev1 \o @]
        ELSE LET keyFromEnv == api_key = PyNone
                 key == IF keyFromEnv THEN getenv(env, "IBM_CLOUD_API_KEY") ELSE api_key
                 ev2 == ev1 \o (IF keyFromEnv THEN <<EvGetKey>> ELSE <<>>)
             IN  IF Truthy(key)
                 THEN LET r == create_iam_authenticator(key, env)
                      IN  [r EXCEPT !.events = ev2 \o @]
                 ELSE Raise("ValueError", ev2)

---------------------------------------------------------------------------
(* Text *)

RECURSIVE Join(_, _)
\* sep.join(parts)
Join(parts, sep) ==
    IF Len(parts) = 0 THEN <<>>
    ELSE IF Len(parts) = 1 THEN parts[1]
    ELSE parts[1] \o sep \o Join(Tail(parts), sep)

Chars(s) == {s[i] : i \in DOMAIN s}

Digits == <<"0", "1", "2", "3", "4", "5", "6", "7", "8", "9">>

RECURSIVE Pad(_, _)
\* n in decimal, zero-padded to w digits (strftime's %Y %m %d %H %M %S fields)
Pad(n, w) == IF w = 0 THEN <<>> ELSE Pad(n \div 10, w - 1) \o <<Digits[(n % 10) + 1]>>

---------------------------------------------------------------------------
(* Wall clock: datetime.utcnow() and strftime("%Y%m%d_%H%M%S") *)

\* The UTC time at which the model's clock reads 0: 2024-01-02 03:04:58.
StartTime == [year |-> 2024, month |-> 1, day |-> 2, hour |-> 3, minute |-> 4, second |-> 58]

\* datetime.utcnow() when the clock reads t seconds (t stays within the day).
utcnow(t) ==
    LET total == StartTime.hour * 3600 + StartTime.minute * 60 + StartTime.second + t
    IN  [year |-> StartTime.year, month |-> StartTime.month, day |-> StartTime.day,
         hour |-> (total \div 3600) % 24,
         minute |-> (total \div 60) % 60,
         second |-> total % 60]

\* Mutant of the time format: seconds dropped.
MinuteStamp(dt) ==
    Pad(dt.year, 4) \o Pad(dt.month, 2) \o Pad(dt.day, 2) \o <<"_">>
        \o Pad(dt.hour, 2) \o Pad(dt.minute, 2) \o <<"0", "0">>

\* dt.strftime("%Y%m%d_%H%M%S")
strftime(dt) ==
    Pad(dt.year, 4) \o Pad(dt.month, 2) \o Pad(dt.day, 2) \o <<"_">>
        \o Pad(dt.hour, 2) \o Pad(dt.minute, 2) \o Pad(dt.second, 2)

---------------------------------------------------------------------------
(* fnmatch.fnmatch on POSIX (normcase is the identity): *, ?, [seq], [!seq].   *)
(* Ranges (a-z) are not modelled; no pattern of the model contains "-".        *)

\* Index of the "]" closing the class opened by the "[" at position j, 0 if none
\* (the "[" is then a literal character).
ClassEnd(pat, j) ==
    LET n == Len(pat)
        s1 == IF j + 1 <= n /\ pat[j + 1] = "!" THEN j + 2 ELSE j + 1
        s2 == IF s1 <= n /\ pat[s1] = "]" THEN s1 + 1 ELSE s1
        closers == {k \in s2..n : pat[k] = "]"}
    IN  IF closers = {} THEN 0 ELSE CHOOSE k \in closers : \A m \in closers : k <= m

\* Whether character c is accepted by the class pat[j..k] ("[" at j, "]" at k).
InClass(c, pat, j, k) ==
    LET stuff == SubSeq(pat, j + 1, k - 1)
    IN  IF stuff[1] = "!"
        THEN c \notin Chars(Tail(stuff))
        ELSE c \in Chars(stuff)

RECURSIVE MatchFrom(_, _, _, _)
\* Whether name[i..] matches pat[j..] in full.
MatchFrom(name, pat, i, j) ==
    IF j > Len(pat) THEN i > Len(name)
    ELSE IF pat[j] = "*"
         THEN MatchFrom(name, pat, i, j + 1)
              \/ (i <= Len(name) /\ MatchFrom(name, pat, i + 1, j))
    ELSE IF pat[j] = "?"
         THEN i <= Len(name) /\ MatchFrom(name, pat, i + 1, j + 1)
    ELSE IF pat[j] = "[" /\ ClassEnd(pat, j) # 0
         THEN i <= Len(name)
              /\ InClass(name[i], pat, j, ClassEnd(pat, j))
              /\ MatchFrom(name, pat, i + 1, ClassEnd(pat, j) + 1)
    ELSE i <= Len(name) /\ name[i] = pat[j] /\ MatchFrom(name, pat, i + 1, j + 1)

fnmatch(name, pat) == MatchFrom(name, pat, 1, 1)

---------------------------------------------------------------------------
(* sdk/cos.py *)

DEFAULT_EXCLUDE_PATTERNS ==
    << <<".", "g", "i", "t">>,
       <<".", "g", "i", "t", "m", "o", "d", "u", "l", "e", "s">>,
       <<".", "g", "i", "t", "h", "u", "b">>,
       <<".", "c", "a", "c", "h", "e">>,
       <<".", "m", "y", "p", "y", "_", "c", "a", "c", "h", "e">>,
       <<".", "p", "y", "t", "e", "s", "t", "_", "c", "a", "c", "h", "e">>,
       <<".", "v", "e", "n", "v">>,
       <<"v", "e", "n", "v">>,
       <<".", "e", "n", "v">>,
       <<".", "e", "n", "v", ".", "l", "o", "c", "a", "l">>,
       <<"n", "o", "d", "e", "_", "m", "o", "d", "u", "l", "e", "s">>,
       <<".", "n", "e", "x", "t">>,
       <<".", "v", "e", "r", "c", "e", "l">>,
       <<"_", "_", "p", "y", "c", "a", "c", "h", "e", "_", "_">>,
       <<"*", ".", "p", "y", "c">>,
       <<"*", ".", "p", "y", "o">>,
       <<"*", ".", "p", "y", "d">>,
       <<"*", ".", "l", "o", "g">>,
       <<"*", ".", "t", "m", "p">>,
       <<"*", ".", "s", "w", "p">>,
       <<".", "D", "S", "_", "S", "t", "o", "r", "e">>,
       <<"d", "i", "s", "t">>,
       <<"b", "u", "i", "l", "d">>,
       <<"c", "o", "v", "e", "r", "a", "g", "e">> >>

\* A path argument that was not given (Python None).
NoPath == <<"<None>">>

\* A rule list that was not given (Python None).
NoPatterns == << <<"<None>">> >>

Slash == <<"/">>

RECURSIVE Split(_, _)
\* s.split(sep) for a one-character separator
Split(s, sep) ==
    LET hits == {i \in DOMAIN s : s[i] = sep}
    IN  IF hits = {} THEN <<s>>
        ELSE LET i == CHOOSE h \in hits : \A m \in hits : h <= m
             IN  <<SubSeq(s, 1, i - 1)>> \o Split(SubSeq(s, i + 1, Len(s)), sep)

\* Whether path lies strictly under directory dir (both absolute, normalised).
IsUnder(path, dir) ==
    /\ Len(path) > Len(dir) + 1
    /\ SubSeq(path, 1, Len(dir)) = dir
    /\ path[Len(dir) + 1] = "/"

\* Path(path).relative_to(dir).parts
RelParts(path, dir) == Split(SubSeq(path, Len(dir) + 2, Len(path)), "/")

\* any(token in pattern for token in ("*", "?", "[", "]"))
has_glob(pattern) == \E i \in DOMAIN pattern : pattern[i] \in {"*", "?", "[", "]"}

\* Mutant: the rule is looked for inside the segments instead of among them.
SubstringInParts(pattern, parts) ==
    \E i \in DOMAIN parts :
        \E a \in 1..Len(parts[i]) :
            \E b \in a..Len(parts[i]) : SubSeq(parts[i], a, b) = pattern

\* pattern in parts (tuple membership: equality with one whole segment)
InParts(pattern, parts) == \E i \in DOMAIN parts : parts[i] = pattern

RECURSIVE RuleLoop(_, _, _)
\* The for loop of should_exclude from rule k on.
RuleLoop(parts, exclude_patterns, k) ==
    IF k > Len(exclude_patterns) THEN FALSE
    ELSE LET pattern == exclude_patterns[k]
         IN  IF ~has_glob(pattern)
             THEN IF InParts(pattern, parts) THEN TRUE
                  ELSE RuleLoop(parts, exclude_patterns, k + 1)
             ELSE IF fnmatch(parts[Len(parts)], pattern)
                     \/ fnmatch(Join(parts, Slash), pattern)
                  THEN TRUE
                  ELSE RuleLoop(parts, exclude_patterns, k + 1)

\* should_exclude(file_path), parts being file_path.relative_to(source_path).parts
should_exclude(parts, exclude_patterns) == RuleLoop(parts, exclude_patterns, 1)

\* Mutant: only regular files that are not symbolic links.
NoLinkIsFile(node) == node.kind = "file"

\* Path.is_file(): a regular file, or a symbolic link that resolves to one.
is_file(node) == node.kind \in {"file", "symlink_file"}

ZipInProgress == "<the archive being written>"

\* The directory tree under the source root as rglob sees it: ZipFile(output, "w")
\* has already created (or truncated) the output file when the walk starts.
WalkTree(tree, source_dir, output_file) ==
    IF IsUnder(output_file, source_dir)
    THEN {n \in tree : n.parts # RelParts(output_file, source_dir)}
         \cup {[parts |-> RelParts(output_file, source_dir), kind |-> "file",
                data |-> ZipInProgress]}
    ELSE tree

RECURSIVE ZipLoop(_, _)
\* The loop over rglob("*") in the order walk: the entries zipf.write adds.
ZipLoop(walk, exclude_patterns) ==
    IF Len(walk) = 0 THEN <<>>
    ELSE LET item == walk[1]
             rest == ZipLoop(Tail(walk), exclude_patterns)
         IN  IF is_file(item) /\ ~should_exclude(item.parts, exclude_patterns)
             THEN <<[arcname |-> Join(item.parts, Slash), data |-> item.data]>> \o rest
             ELSE rest

TmpPrefix == <<"/", "t", "m", "p", "/", "s", "o", "u", "r", "c", "e", "_">>

ZipSuffix == <<".", "z", "i", "p">>

\* Mutant: the default archive is put next to the sources.
SourceDirDefaultOutput(now) ==
    <<"/", "s", "/", "s", "o", "u", "r", "c", "e", "_">> \o strftime(now) \o ZipSuffix

\* f"/tmp/source_{timestamp}.zip"
DefaultOutput(now) == TmpPrefix \o strftime(now) \o ZipSuffix

OutputFile(output_path, now) ==
    IF output_path = NoPath THEN DefaultOutput(now) ELSE output_path

\* Path(path).parents without the root directory "/".
Parents(path) ==
    {SubSeq(path, 1, i - 1) : i \in {j \in DOMAIN path : j > 1 /\ path[j] = "/"}}

\* Mutant: the parent directories are made before the source is looked for.
EagerArchiveFsOps(source_exists, output_file) ==
    [mkdir |-> Parents(output_file),
     write |-> IF source_exists THEN {output_file} ELSE {}]

\* The file-system operations of create_source_archive: the directories
\* output_file.parent.mkdir(parents=True, exist_ok=True) asks for and the file
\* ZipFile(output_file, "w") opens for writing.  Both come after the raise for a
\* missing source.
ArchiveFsOps(source_exists, output_file) ==
    IF ~source_exists
    THEN [mkdir |-> {}, write |-> {}]
    ELSE [mkdir |-> Parents(output_file), write |-> {output_file}]

\* create_source_archive: source_exists is Path(source_dir).resolve().exists(),
\* walk the order in which rglob yields WalkTree.  value is the returned path,
\* entries the content of the archive written there, fs the file-system
\* operations performed.
create_source_archive(source_exists, output_path, exclude_patterns, now, walk) ==
    LET patterns == IF exclude_patterns = NoPatterns THEN DEFAULT_EXCLUDE_PATTERNS
                    ELSE exclude_patterns
        fs == ArchiveFsOps(source_exists, OutputFile(output_path, now))
    IN  IF ~source_exists
        THEN [status |-> "raised", exc |-> "FileNotFoundError", value |-> NoPath,
              entries |-> <<>>, fs |-> fs]
        ELSE [status |-> "returned", exc |-> "none",
              value |-> OutputFile(output_path, now),
              entries |-> ZipLoop(walk, patterns), fs |-> fs]

ZipClosed == "<the finished archive>"

\* The disk after the operations fs: mkdir with exist_ok leaves an existing
\* entry alone, opening a file for writing replaces what was at its path.
ApplyFs(disk, fs) ==
    {n \in disk : n.path \notin fs.write}
        \cup {[path |-> p, kind |-> "file", data |-> ZipClosed] : p \in fs.write}
        \cup {[path |-> d, kind |-> "dir", data |-> "-"] :
                  d \in {e \in fs.mkdir : \A n \in disk : n.path # e}}

KeyPrefix == <<"d", "e", "p", "l", "o", "y", "m", "e", "n", "t", "s", "/">>

KeySuffix == <<"_", "s", "o", "u", "r", "c", "e", ".", "z", "i", "p">>

\* Mutant: the key carries the time to the minute only.
MinuteObjectName(deployment_id, now) ==
    KeyPrefix \o deployment_id \o Slash \o MinuteStamp(now) \o KeySuffix

\* f"deployments/{deployment_id}/{timestamp}_source.zip"
ObjectName(deployment_id, now) ==
    KeyPrefix \o deployment_id \o Slash \o strftime(now) \o KeySuffix

CosScheme == <<"c", "o", "s", ":", "/", "/">>

\* f"cos://{self.bucket_name}/{object_name}"
CosUri(bucket_name, object_name) == CosScheme \o bucket_name \o Slash \o object_name

EvPut == "client.upload_fileobj"

\* Mutant: a failed put is reported and the locator returned all the same
\* (the best-effort handling delete_file has).
BestEffortUploadFile(file_exists, can_open, file_path, object_name, bucket_name, put_ok) ==
    LET parts == Split(file_path, "/")
        key == IF object_name = NoPath THEN parts[Len(parts)] ELSE object_name
    IN  IF ~file_exists
        THEN [status |-> "raised", exc |-> "FileNotFoundError", value |-> NoPath,
              key |-> key, events |-> <<>>]
        ELSE [status |-> "returned", exc |-> "none",
              value |-> CosUri(bucket_name, key), key |-> key,
              events |-> IF can_open THEN <<EvPut>> ELSE <<>>]

\* upload_file: file_exists is Path(file_path).exists(), can_open whether
\* open(file_path, "rb") succeeds, put_ok whether the storage client's
\* upload_fileobj returns (TRUE) or raises (FALSE).  key is the Key handed to
\* the storage client, events the calls made to it.
upload_file(file_exists, can_open, file_path, object_name, bucket_name, put_ok) ==
    LET parts == Split(file_path, "/")
        key == IF object_name = NoPath THEN parts[Len(parts)] ELSE object_name
    IN  IF ~file_exists
        THEN [status |-> "raised", exc |-> "FileNotFoundError", value |-> NoPath,
              key |-> key, events |-> <<>>]
        ELSE IF ~can_open
        THEN [status |-> "raised", exc |-> "RuntimeError", value |-> NoPath,
              key |-> key, events |-> <<>>]
        ELSE IF put_ok
        THEN [status |-> "returned", exc |-> "none",
              value |-> CosUri(bucket_name, key), key |-> key, events |-> <<EvPut>>]
        ELSE [status |-> "raised", exc |-> "RuntimeError", value |-> NoPath,
              key |-> key, events |-> <<EvPut>>]

\* Mutant: the locator names the archive's file name, not the key it was stored under.
FileNameUploadSourceCode(source_exists, deployment_id, bucket_name, now, later, walk, put_ok) ==
    LET object_name == ObjectName(deployment_id, now)
        zip == create_source_archive(source_exists, NoPath, NoPatterns, later, walk)
        up == upload_file(TRUE, TRUE, zip.value, NoPath, bucket_name, put_ok)
    IN  IF zip.status = "raised"
        THEN [status |-> "raised", exc |-> zip.exc, value |-> NoPath,
              zip_path |-> NoPath, key |-> object_name, events |-> <<>>]
        ELSE [status |-> up.status, exc |-> up.exc, value |-> up.value,
              zip_path |-> IF up.status = "returned" THEN zip.value ELSE NoPath,
              key |-> up.key, events |-> up.events]

\* upload_source_code: now is the utcnow() of line 214 (the key), later the
\* utcnow() inside create_source_archive (the default output path).  value is
\* the returned locator, zip_path the returned local path.
upload_source_code(source_exists, deployment_id, bucket_name, now, later, walk, put_ok) ==
    LET object_name == ObjectName(deployment_id, now)
        zip == create_source_archive(source_exists, NoPath, NoPatterns, later, walk)
        up == upload_file(TRUE, TRUE, zip.value, object_name, bucket_name, put_ok)
    IN  IF zip.status = "raised"
        THEN [status |-> "raised", exc |-> zip.exc, value |-> NoPath,
              zip_path |-> NoPath, key |-> object_name, events |-> <<>>]
        ELSE [status |-> up.status, exc |-> up.exc, value |-> up.value,
              zip_path |-> IF up.status = "returned" THEN zip.value ELSE NoPath,
              key |-> up.key, events |-> up.events]

\* Whether the credential object has the attribute token_manager (with .apikey):
\* IAMAuthenticator has one, BearerTokenAuthenticator holds only bearer_token.
HasTokenManager(authenticator) == authenticator.type = "IAMAuthenticator"

NoHandle == [status |-> "none"]

\* create_cos_uploader / COSUploader.__init__: reads
\* authenticator.token_manager.apikey to build the storage client.
create_cos_uploader(authenticator, bucket_name) ==
    IF HasTokenManager(authenticator)
    THEN [status |-> "returned", exc |-> "none",
          value |-> [status |-> "handle", bucket_name |-> bucket_name,
                     ibm_api_key_id |-> authenticator.secret]]
    ELSE [status |-> "raised", exc |-> "AttributeError", value |-> NoHandle]

---------------------------------------------------------------------------
(* Idle values of the variables a specification does not use *)

NoExit == -1

PipeIdle ==
    /\ cfg = <<>>
    /\ pc = <<>>
    /\ loc = <<>>
    /\ steps = <<>>
    /\ exitCode = <<>>
    /\ clock = 0
    /\ tmpFiles = <<>>
    /\ bucket = <<>>
    /\ sched = "none"

CallIdle ==
    /\ args = [fn |-> "none"]
    /\ result = Pending

---------------------------------------------------------------------------
(* SpecAuth: get_authenticator applied to every combination of arguments,     *)
(* environment and token-endpoint answer.                                      *)

OptSecret(s) == {PyNone, "", s}

AuthArgs ==
    [fn : {"get_authenticator"},
     trusted_profile_id : OptSecret("Profile-1"),
     api_key : OptSecret("key-arg"),
     oidc_token : OptSecret("oidc-arg"),
     env_oidc : OptSecret("oidc-env"),
     env_key : OptSecret("key-env"),
     response : Responses]

AuthEnv(a) ==
    [n \in EnvNames |-> IF n = "VERCEL_OIDC_TOKEN" THEN a.env_oidc ELSE a.env_key]

InitAuth ==
    /\ args \in AuthArgs
    /\ result = Pending
    /\ PipeIdle

CallGetAuthenticator ==
    /\ args.fn = "get_authenticator"
    /\ result = Pending
    /\ result' = get_authenticator(args.trusted_profile_id, args.api_key,
                                   args.oidc_token, AuthEnv(args), args.response)
    /\ UNCHANGED <<args, pipeVars>>

NextAuth == CallGetAuthenticator

SpecAuth == InitAuth /\ [][NextAuth]_vars

---------------------------------------------------------------------------
(* Inputs of the archive specifications *)

\* The longest rule list should_exclude is applied to.
MaxRules == 2

\* The longest explicit rule list create_source_archive is applied to.
MaxArchiveRules == 1

\* The largest number of entries under a source root.
MaxNodes == 3

\* The last second on the model's clock.
MaxClock == 3

RulePool ==
    { <<"a">>,            \* plain name
      <<"a", "b">>,       \* plain name containing the previous one
      <<"*", ".", "b">>,  \* glob on the base name
      <<"a", "b", "/", "*">>,  \* glob on the relative path
      <<"?">>,            \* glob: any one-character name
      <<"[", "!", "a", "]">>,  \* glob: negated class
      <<"a", "]">> }      \* contains "]" only: matched as a literal by fnmatch

RuleLists(n) == UNION {[1..k -> RulePool] : k \in 0..n}

\* Relative paths (as segments) the exclusion test is applied to.
PathPool ==
    { <<<<"a">>>>,
      <<<<"a", "b">>>>,
      <<<<"b">>>>,
      <<<<"c", ".", "b">>>>,
      <<<<"a", "]">>>>,
      <<<<"a", "b">>, <<"a">>>>,
      <<<<"a", "b">>, <<"c", ".", "b">>>>,
      <<<<"b">>, <<"a", "b">>>> }

SourceRoot == <<"/", "s">>

\* Entries that may exist under the source root.
NodePool ==
    { [parts |-> <<<<"a">>>>, kind |-> "file", data |-> "A"],
      [parts |-> <<<<"a", "b">>>>, kind |-> "dir", data |-> "-"],
      [parts |-> <<<<"a", "b">>, <<"a">>>>, kind |-> "file", data |-> "B"],
      [parts |-> <<<<"a", "b">>, <<"c", ".", "b">>>>, kind |-> "file", data |-> "C"],
      [parts |-> <<<<"c", ".", "b">>>>, kind |-> "symlink_file", data |-> "L"],
      [parts |-> <<<<"b">>>>, kind |-> "symlink_dir", data |-> "-"] }

\* A directory tree: every entry's parent directory is an entry too.
IsTree(S) ==
    \A n \in S :
        Len(n.parts) > 1 =>
            \E d \in S : d.kind = "dir" /\ d.parts = SubSeq(n.parts, 1, Len(n.parts) - 1)

Trees == {S \in SUBSET NodePool : Cardinality(S) <= MaxNodes /\ IsTree(S)}

\* The orders in which a walk can yield the entries of S, each exactly once.
Walks(S) ==
    {w \in [1..Cardinality(S) -> S] : \A n \in S : \E i \in DOMAIN w : w[i] = n}

\* All orderings of a sequence.
Orderings(seq) ==
    {[i \in DOMAIN seq |-> seq[f[i]]] :
        f \in {g \in [DOMAIN seq -> DOMAIN seq] :
                   \A a, b \in DOMAIN seq : a # b => g[a] # g[b]}}

---------------------------------------------------------------------------
(* SpecExclude: should_exclude applied to a path and a rule list *)

InitExclude ==
    /\ args \in [fn : {"should_exclude"}, parts : PathPool,
                 exclude_patterns : RuleLists(MaxRules)]
    /\ result = Pending
    /\ PipeIdle

CallShouldExclude ==
    /\ args.fn = "should_exclude"
    /\ result = Pending
    /\ result' = [status |-> "returned",
                  value |-> should_exclude(args.parts, args.exclude_patterns)]
    /\ UNCHANGED <<args, pipeVars>>

NextExclude == CallShouldExclude

SpecExclude == InitExclude /\ [][NextExclude]_vars

---------------------------------------------------------------------------
(* SpecArchive: create_source_archive applied to a source tree; the walk      *)
(* order is chosen when the call runs.                                         *)

InsideOutput == SourceRoot \o <<"/", "o">>

\* An output path outside the source root whose parent directory does not exist.
OutsideOutput == <<"/", "n", "/", "o">>

TmpDir == <<"/", "t", "m", "p">>

\* The disk before the call: /tmp, and the source root with its tree when the
\* source directory exists.
Disk(a) ==
    {[path |-> TmpDir, kind |-> "dir", data |-> "-"]}
        \cup (IF a.source_exists
               THEN {[path |-> SourceRoot, kind |-> "dir", data |-> "-"]}
                    \cup {[path |-> SourceRoot \o Slash \o Join(n.parts, Slash),
                            kind |-> n.kind, data |-> n.data] : n \in a.tree}
               ELSE {})

InitArchive ==
    /\ args \in [fn : {"create_source_archive"},
                 source_exists : BOOLEAN,
                 tree : Trees,
                 output_path : {NoPath, InsideOutput, OutsideOutput},
                 exclude_patterns : {NoPatterns} \cup RuleLists(MaxArchiveRules),
                 now : {0}]
    /\ args.source_exists \/ (args.tree = {} /\ args.exclude_patterns = NoPatterns)
    /\ result = Pending
    /\ PipeIdle

CallCreateSourceArchive ==
    /\ args.fn = "create_source_archive"
    /\ result = Pending
    /\ \E walk \in Walks(WalkTree(args.tree, SourceRoot,
                                  OutputFile(args.output_path, utcnow(args.now)))) :
           result' = create_source_archive(args.source_exists, args.output_path,
                                           args.exclude_patterns, utcnow(args.now), walk)
    /\ UNCHANGED <<args, pipeVars>>

NextArchive == CallCreateSourceArchive

SpecArchive == InitArchive /\ [][NextArchive]_vars

---------------------------------------------------------------------------
(* SpecKey: the object key of upload_source_code for two uploads *)

DeploymentIds ==
    { <<"d">>,
      <<"e">>,
      <<"d", "e">>,
      <<"d", "/", "e">>,
      <<"d", "/">> }

InitKey ==
    /\ args \in [fn : {"object_name"}, id1 : DeploymentIds, id2 : DeploymentIds,
                 t1 : 0..MaxClock, t2 : 0..MaxClock]
    /\ result = Pending
    /\ PipeIdle

CallObjectName ==
    /\ args.fn = "object_name"
    /\ result = Pending
    /\ result' = [status |-> "returned",
                  key1 |-> ObjectName(args.id1, utcnow(args.t1)),
                  key2 |-> ObjectName(args.id2, utcnow(args.t2))]
    /\ UNCHANGED <<args, pipeVars>>

NextKey == CallObjectName

SpecKey == InitKey /\ [][NextKey]_vars

---------------------------------------------------------------------------
(* deploy_ibm.py: the pipeline.  Two runs of main, each its own process with   *)
(* its own configuration and environment, on one machine (one /tmp, one clock) *)
(* and one bucket.                                                             *)

\* The last second on the clock of the pipeline specifications.
MaxTicks == 1

Runs == {"r1", "r2"}

DeploymentIdOf(r) == IF r = "r1" THEN <<"d", "1">> ELSE <<"d", "2">>

SourceDirOf(r) == IF r = "r1" THEN <<"/", "w", "/", "1">> ELSE <<"/", "w", "/", "2">>

BucketName == <<"b", "k", "t">>

\* The source trees of the two projects.
SourceTreeOf(r) ==
    IF r = "r1"
    THEN { [parts |-> <<<<"m">>>>, kind |-> "file", data |-> "m1"],
           [parts |-> <<<<"n", ".", "l", "o", "g">>>>, kind |-> "file", data |-> "n1"] }
    ELSE { [parts |-> <<<<"m">>>>, kind |-> "file", data |-> "m2"],
           [parts |-> <<<<"p">>>>, kind |-> "file", data |-> "p2"] }

\* How a run can authenticate: a trusted profile with the OIDC token of the
\* build environment, an API key in the environment, or nothing.
AuthModes == {"oidc", "api_key", "none"}

ConfigOf(r, mode, exists, cleanup) ==
    [deployment_id |-> DeploymentIdOf(r),
     source_dir |-> SourceDirOf(r),
     source_exists |-> exists,
     cleanup_artifacts |-> cleanup,
     cos_bucket |-> BucketName,
     trusted_profile_id |-> IF mode = "oidc" THEN "Profile-1" ELSE PyNone,
     env |-> [n \in EnvNames |->
                 IF n = "VERCEL_OIDC_TOKEN"
                 THEN (IF mode = "oidc" THEN "oidc-env" ELSE PyNone)
                 ELSE (IF mode = "api_key" THEN "key-env" ELSE PyNone)]]

NoLocals ==
    [authenticator |-> NoCred, uploader |-> NoHandle, object_name |-> NoPath,
     zip_path |-> NoPath, cos_uri |-> NoPath, exc |-> "none", report |-> "none",
     events |-> <<>>]

InitPipe(how) ==
    /\ CallIdle
    /\ sched = how
    /\ \E mode \in [Runs -> AuthModes], exists \in [Runs -> BOOLEAN],
          cleanup \in [Runs -> BOOLEAN] :
           cfg = [r \in Runs |-> ConfigOf(r, mode[r], exists[r], cleanup[r])]
    /\ pc = [r \in Runs |-> "load_config"]
    /\ loc = [r \in Runs |-> NoLocals]
    /\ steps = [r \in Runs |-> <<>>]
    /\ exitCode = [r \in Runs |-> NoExit]
    /\ clock = 0
    /\ tmpFiles = <<>>
    /\ bucket = <<>>

\* f with key k bound to v (k added to the domain when new)
Put(f, k, v) == [x \in DOMAIN f \cup {k} |-> IF x = k THEN v ELSE f[x]]

\* f without key k
Drop(f, k) == [x \in DOMAIN f \ {k} |-> f[x]]

\* Mutant: a failed step is logged and the next step runs all the same.
KeepGoingMainNext(step, exc) ==
    CASE step = "load_config" -> (IF exc # "none" THEN "done" ELSE "authenticate")
      [] step = "get_authenticator" -> (IF exc # "none" THEN "done" ELSE "create_uploader")
      [] step = "create_cos_uploader" -> (IF exc # "none" THEN "done" ELSE "object_name")
      [] step = "create_source_archive" -> "upload_file"
      [] step = "upload_file" -> (IF exc # "none" THEN "done" ELSE "cleanup")
      [] OTHER -> "done"

\* The try block of main: an exception in any step leaves the block, otherwise
\* the next statement runs.
MainNext(step, exc) ==
    IF exc # "none" THEN "done"
    ELSE CASE step = "load_config" -> "authenticate"
           [] step = "get_authenticator" -> "create_uploader"
           [] step = "create_cos_uploader" -> "object_name"
           [] step = "create_source_archive" -> "upload_file"
           [] step = "upload_file" -> "cleanup"
           [] OTHER -> "done"

\* The except clauses of main: what is printed for the exception class.
Report(exc) ==
    IF exc = "none" THEN "Phase 1 Complete"
    ELSE IF exc \in {"FileNotFoundError", "ValueError"} THEN "Configuration Error"
    ELSE "Deployment Failed"

\* The value main returns.
ExitCodeFor(exc) == IF exc = "none" THEN 0 ELSE 1

\* Mutant: the archive is removed on every exit (a finally block).
AlwaysCleanupOnExit(exc, cleanup_artifacts) == cleanup_artifacts

\* Whether main unlinks the archive before it returns: only on the success path
\* (lines 78-81), and only when cleanup_artifacts is set.
CleanupOnExit(exc, cleanup_artifacts) == exc = "none" /\ cleanup_artifacts

\* One step of main has run with exception class exc ("none": it returned) and
\* new locals l; files is the scratch directory after the step.
Advance(r, step, exc, l, files) ==
    LET next == MainNext(step, exc)
        started == Append(steps[r], [name |-> step, ok |-> exc = "none"])
        cleans == /\ next = "done"
                  /\ CleanupOnExit(exc, cfg[r].cleanup_artifacts)
                  /\ l.zip_path # NoPath
    IN  /\ pc' = [pc EXCEPT ![r] = next]
        /\ steps' = [steps EXCEPT ![r] =
                        IF cleans THEN Append(started, [name |-> "cleanup", ok |-> TRUE])
                        ELSE started]
        /\ loc' = [loc EXCEPT ![r] =
                      IF next = "done"
                      THEN [l EXCEPT !.exc = exc, !.report = Report(exc)]
                      ELSE l]
        /\ exitCode' = [exitCode EXCEPT ![r] =
                           IF next = "done" THEN ExitCodeFor(exc) ELSE @]
        /\ tmpFiles' = IF cleans THEN Drop(files, l.zip_path) ELSE files

InFlight(r) == pc[r] \notin {"load_config", "done"}

\* Whether run r may take a step: always when the runs are started in parallel;
\* when they are started one after the other, only while no other run is in
\* flight.
MayMove(r) == sched = "parallel" \/ \A o \in Runs \ {r} : ~InFlight(o)

\* [1/4] load_config(): the file is missing (FileNotFoundError), empty or
\* incomplete (ValueError), or valid.
LoadConfig(r) ==
    /\ MayMove(r)
    /\ pc[r] = "load_config"
    /\ \E exc \in {"none", "FileNotFoundError", "ValueError"} :
           Advance(r, "load_config", exc, loc[r], tmpFiles)
    /\ UNCHANGED <<cfg, clock, bucket, sched, callVars>>

\* [2/4] auth.get_authenticator(trusted_profile_id=config.ibm_cloud.trusted_profile_id)
Authenticate(r) ==
    /\ MayMove(r)
    /\ pc[r] = "authenticate"
    /\ \E response \in Responses :
           LET res == get_authenticator(cfg[r].trusted_profile_id, PyNone, PyNone,
                                        cfg[r].env, response)
           IN  Advance(r, "get_authenticator", res.exc,
                       [loc[r] EXCEPT !.authenticator = res.value,
                                      !.events = res.events],
                       tmpFiles)
    /\ UNCHANGED <<cfg, clock, bucket, sched, callVars>>

\* [3/4] cos.create_cos_uploader(authenticator=authenticator, ...)
CreateUploader(r) ==
    /\ MayMove(r)
    /\ pc[r] = "create_uploader"
    /\ LET res == create_cos_uploader(loc[r].authenticator, cfg[r].cos_bucket)
       IN  Advance(r, "create_cos_uploader", res.exc,
                   [loc[r] EXCEPT !.uploader = res.value], tmpFiles)
    /\ UNCHANGED <<cfg, clock, bucket, sched, callVars>>

\* upload_source_code, lines 213-215: the object key from the clock
MakeObjectName(r) ==
    /\ MayMove(r)
    /\ pc[r] = "object_name"
    /\ pc' = [pc EXCEPT ![r] = "create_archive"]
    /\ loc' = [loc EXCEPT ![r].object_name =
                  ObjectName(cfg[r].deployment_id, utcnow(clock))]
    /\ UNCHANGED <<cfg, steps, exitCode, clock, tmpFiles, bucket, sched, callVars>>

\* upload_source_code, lines 217-222: the archive, written to the default path
CreateArchive(r) ==
    /\ MayMove(r)
    /\ pc[r] = "create_archive"
    /\ \E walk \in Walks(WalkTree(SourceTreeOf(r), cfg[r].source_dir,
                                  DefaultOutput(utcnow(clock)))) :
           LET res == create_source_archive(cfg[r].source_exists, NoPath, NoPatterns,
                                            utcnow(clock), walk)
               content == [entries |-> {res.entries[i] : i \in DOMAIN res.entries},
                           by |-> r]
           IN  Advance(r, "create_source_archive", res.exc,
                       [loc[r] EXCEPT !.zip_path = res.value],
                       IF res.status = "returned"
                       THEN Put(tmpFiles, res.value, content)
                       ELSE tmpFiles)
    /\ UNCHANGED <<cfg, clock, bucket, sched, callVars>>

\* upload_source_code, lines 224-230: upload_file(zip_path, object_name)
UploadFile(r) ==
    /\ MayMove(r)
    /\ pc[r] = "upload_file"
    /\ \E put_ok \in BOOLEAN :
           LET res == upload_file(loc[r].zip_path \in DOMAIN tmpFiles, TRUE, loc[r].zip_path,
                                  loc[r].object_name, loc[r].uploader.bucket_name, put_ok)
           IN  /\ Advance(r, "upload_file", res.exc,
                          [loc[r] EXCEPT !.cos_uri = res.value,
                                         !.events = @ \o res.events],
                          tmpFiles)
               /\ bucket' = IF res.status = "returned"
                            THEN Put(bucket, res.key, tmpFiles[loc[r].zip_path])
                            ELSE bucket
    /\ UNCHANGED <<cfg, clock, sched, callVars>>

\* main, lines 66-83: the optional cleanup and return 0
Cleanup(r) ==
    /\ MayMove(r)
    /\ pc[r] = "cleanup"
    /\ pc' = [pc EXCEPT ![r] = "done"]
    /\ LET cleans == CleanupOnExit("none", cfg[r].cleanup_artifacts)
       IN  /\ steps' = [steps EXCEPT ![r] =
                           IF cleans THEN Append(@, [name |-> "cleanup", ok |-> TRUE])
                           ELSE @]
           /\ tmpFiles' = IF cleans THEN Drop(tmpFiles, loc[r].zip_path) ELSE tmpFiles
    /\ loc' = [loc EXCEPT ![r].report = Report("none")]
    /\ exitCode' = [exitCode EXCEPT ![r] = ExitCodeFor("none")]
    /\ UNCHANGED <<cfg, clock, bucket, sched, callVars>>

\* A second passes on the wall clock.
Tick ==
    /\ clock < MaxTicks
    /\ clock' = clock + 1
    /\ UNCHANGED <<cfg, pc, loc, steps, exitCode, tmpFiles, bucket, sched, callVars>>

Step(r) ==
    \/ LoadConfig(r)
    \/ Authenticate(r)
    \/ CreateUploader(r)
    \/ MakeObjectName(r)
    \/ CreateArchive(r)
    \/ UploadFile(r)
    \/ Cleanup(r)

Next ==
    \/ \E r \in Runs : Step(r)
    \/ Tick

\* The runs one after the other.
Spec == InitPipe("serial") /\ [][Next]_vars

\* The runs in parallel: every interleaving of the steps of the two processes.
SpecConc == InitPipe("parallel") /\ [][Next]_vars

---------------------------------------------------------------------------
(* SpecUpload: upload_file applied to a local path, against a bucket that may  *)
(* already hold an object.                                                     *)

\* Local paths handed to upload_file.
FilePool ==
    { <<"/", "t", "m", "p", "/", "z", ".", "z", "i", "p">>,
      <<"/", "w", "/", "a", ".", "z", "i", "p">>,
      <<"a", ".", "z", "i", "p">> }

\* Object keys handed to upload_file (NoPath: none given, the file name is used).
KeyPool ==
    { NoPath,
      <<"k">>,
      <<"d", "/", "a", ".", "z", "i", "p">> }

BucketNames == {BucketName, <<"b", "2">>}

\* What the bucket holds before the call: nothing, or an older object.
OldObject == "<an older object>"

BucketPool ==
    { <<>>,
      [k \in {<<"a", ".", "z", "i", "p">>} |-> OldObject],
      [k \in {<<"k">>} |-> OldObject] }

LocalData == "<the bytes of the local file>"

InitUpload ==
    /\ args \in [fn : {"upload_file"},
                 file_exists : BOOLEAN,
                 can_open : BOOLEAN,
                 file_path : FilePool,
                 object_name : KeyPool,
                 bucket_name : BucketNames,
                 before : BucketPool,
                 put_ok : BOOLEAN]
    /\ args.file_exists \/ ~args.can_open
    /\ result = Pending
    /\ cfg = <<>>
    /\ pc = <<>>
    /\ loc = <<>>
    /\ steps = <<>>
    /\ exitCode = <<>>
    /\ clock = 0
    /\ tmpFiles = <<>>
    /\ bucket = args.before
    /\ sched = "none"

\* The object is in the bucket exactly when upload_fileobj was called and
\* returned; what upload_file hands back is its own business.
CallUploadFile ==
    /\ args.fn = "upload_file"
    /\ result = Pending
    /\ LET res == upload_file(args.file_exists, args.can_open, args.file_path,
                              args.object_name, args.bucket_name, args.put_ok)
       IN  /\ result' = res
           /\ bucket' = IF Count(res.events, EvPut) > 0 /\ args.put_ok
                        THEN Put(bucket, res.key, LocalData)
                        ELSE bucket
    /\ UNCHANGED <<args, cfg, pc, loc, steps, exitCode, clock, tmpFiles, sched>>

NextUpload == CallUploadFile

SpecUpload == InitUpload /\ [][NextUpload]_vars

---------------------------------------------------------------------------
(* SpecUploadSource: upload_source_code for a deployment id, a bucket and an   *)
(* upload time.                                                                *)

\* The source tree of the uploads.
UploadTree == SourceTreeOf("r1")

InitUploadSource ==
    /\ args \in [fn : {"upload_source_code"},
                 source_exists : BOOLEAN,
                 deployment_id : DeploymentIds,
                 bucket_name : BucketNames,
                 now : 0..MaxClock,
                 delay : 0..1,
                 put_ok : BOOLEAN]
    /\ result = Pending
    /\ cfg = <<>>
    /\ pc = <<>>
    /\ loc = <<>>
    /\ steps = <<>>
    /\ exitCode = <<>>
    /\ clock = args.now
    /\ tmpFiles = <<>>
    /\ bucket = <<>>
    /\ sched = "none"

CallUploadSourceCode ==
    /\ args.fn = "upload_source_code"
    /\ result = Pending
    /\ \E walk \in Walks(WalkTree(UploadTree, SourceRoot,
                                  DefaultOutput(utcnow(clock + args.delay)))) :
           LET res == upload_source_code(args.source_exists, args.deployment_id,
                                         args.bucket_name, utcnow(clock),
                                         utcnow(clock + args.delay), walk, args.put_ok)
           IN  /\ result' = res
               /\ bucket' = IF Count(res.events, EvPut) > 0 /\ args.put_ok
                            THEN Put(bucket, res.key, LocalData)
                            ELSE bucket
               /\ tmpFiles' = IF args.source_exists
                              THEN Put(tmpFiles, DefaultOutput(utcnow(clock + args.delay)),
                                       LocalData)
                              ELSE tmpFiles
    /\ clock' = clock + args.delay
    /\ UNCHANGED <<args, cfg, pc, loc, steps, exitCode, sched>>

NextUploadSource == CallUploadSourceCode

SpecUploadSource == InitUploadSource /\ [][NextUploadSource]_vars

---------------------------------------------------------------------------
(* Claims about credential resolution (checked under SpecAuth) *)

\* The OIDC token get_authenticator has to work with: the explicit argument
\* when one is passed, the value of VERCEL_OIDC_TOKEN otherwise.
AvailableOidc(a) == IF a.oidc_token # PyNone THEN a.oidc_token ELSE a.env_oidc

AuthDone == args.fn = "get_authenticator" /\ result.status # "pending"

OidcCase == Truthy(AvailableOidc(args)) /\ Truthy(args.trusted_profile_id)

\* C1: whenever an OIDC token is available (the explicit argument, or
\* VERCEL_OIDC_TOKEN when none is passed) and a trusted-profile id is
\* configured, get_authenticator attempts the token exchange and never reads
\* or uses an API key, whether the exchange succeeds or fails: the outcome is
\* the exchanged bearer credential or the error of the exchange, never an
\* API-key credential.
C1_ExchangeBeforeApiKey ==
    (AuthDone /\ OidcCase) =>
        /\ Count(result.events, EvPost) = 1
        /\ Count(result.events, EvGetKey) = 0
        /\ Count(result.events, EvIam) = 0
        /\ result.value.type # "IAMAuthenticator"
        /\ (result.status = "returned") = (ExchangeBody(args.response) = "none")
        /\ result.status = "returned" =>
               result.value = BearerTokenAuthenticator(args.response.access_token)
        /\ result.status = "raised" => result.value = NoCred

\* C1 witness: the exchange failed although an API key was passed and another
\* one is set in the environment.
C1_Witness ==
    /\ AuthDone
    /\ OidcCase
    /\ Truthy(args.api_key)
    /\ Truthy(args.env_key)
    /\ result.status = "raised"
    /\ Count(result.events, EvPost) = 1

\* The failures of the exchange the error contract names: a JSON object
\* without (or with an empty) access_token, a transport failure, a non-2xx
\* status.
ExchangeFailure(response) ==
    \/ response.kind \in {"transport_error", "status_error"}
    \/ response.kind = "object" /\ ~Truthy(response.access_token)

\* C10: when the exchange is attempted and the endpoint answers with a JSON
\* object without access_token, or the request fails in transport or with a
\* non-2xx status, resolution raises the exchange error (RuntimeError) and
\* yields no credential, after exactly one HTTP request.
C10_ExchangeFailureIsFatal ==
    (AuthDone /\ OidcCase /\ ExchangeFailure(args.response)) =>
        /\ result.status = "raised"
        /\ result.exc = "RuntimeError"
        /\ result.value = NoCred
        /\ Count(result.events, EvPost) = 1
        /\ Count(result.events, EvBearer) = 0
        /\ Count(result.events, EvIam) = 0

\* C10 witness: a 2xx JSON object without access_token made the resolution fail.
C10_Witness ==
    /\ AuthDone
    /\ OidcCase
    /\ args.response = [kind |-> "object", access_token |-> PyNone]
    /\ result.status = "raised"
    /\ result.exc = "RuntimeError"

\* The API key get_authenticator has to work with: the explicit argument when
\* one is passed, the value of IBM_CLOUD_API_KEY otherwise.
AvailableKey(a) == IF a.api_key # PyNone THEN a.api_key ELSE a.env_key

\* An optional string that carries nothing: None or the empty string.
Missing(x) == x \in {PyNone, ""}

\* The OIDC path does not apply: no token to exchange, or no profile to
\* exchange it for.
NoOidcCase == Missing(AvailableOidc(args)) \/ Missing(args.trusted_profile_id)

\* C11: when the OIDC path does not apply (no OIDC token available, or no
\* trusted-profile id configured) and an API key is available (the explicit
\* argument, or IBM_CLOUD_API_KEY when none is passed), get_authenticator
\* returns the API-key credential built from that key and sends no request to
\* the token endpoint.
C11_ApiKeyFallbackNoNetwork ==
    (AuthDone /\ NoOidcCase /\ ~Missing(AvailableKey(args))) =>
        /\ result.status = "returned"
        /\ result.value = [type |-> "IAMAuthenticator", secret |-> AvailableKey(args)]
        /\ Count(result.events, EvPost) = 0
        /\ Count(result.events, EvBearer) = 0
        /\ Count(result.events, EvIam) = 1

\* C11 witness: an OIDC token is set but no profile id, and the key of the
\* environment became the credential.
C11_Witness ==
    /\ AuthDone
    /\ ~Missing(AvailableOidc(args))
    /\ Missing(args.trusted_profile_id)
    /\ args.api_key = PyNone
    /\ ~Missing(args.env_key)
    /\ result.status = "returned"
    /\ result.value.type = "IAMAuthenticator"
    /\ result.value.secret = args.env_key

\* C12: when neither an OIDC token nor an API key is available,
\* get_authenticator raises the no-credential error (ValueError), yields no
\* credential and sends no request, with or without a trusted-profile id.
C12_NoCredentialIsAnError ==
    (AuthDone /\ Missing(AvailableOidc(args)) /\ Missing(AvailableKey(args))) =>
        /\ result.status = "raised"
        /\ result.exc = "ValueError"
        /\ result.value = NoCred
        /\ Count(result.events, EvPost) = 0
        /\ Count(result.events, EvIam) = 0
        /\ Count(result.events, EvBearer) = 0

\* C12 witness: a profile id is configured, the token is the empty string
\* and no key is set anywhere; the call raised.
C12_Witness ==
    /\ AuthDone
    /\ ~Missing(args.trusted_profile_id)
    /\ AvailableOidc(args) = ""
    /\ Missing(AvailableKey(args))
    /\ result.status = "raised"
    /\ result.exc = "ValueError"

---------------------------------------------------------------------------
(* Claims about the exclusion rules (checked under SpecExclude) *)

GlobChars == {"*", "?", "[", "]"}

\* The rule r of the exclusion contract applied to the relative path parts: a
\* rule without glob characters names one whole segment, a rule with one is a
\* glob on the base name or on the posix-style relative path.
RuleMatches(r, parts) ==
    IF Chars(r) \cap GlobChars = {}
    THEN r \in {parts[i] : i \in DOMAIN parts}
    ELSE fnmatch(parts[Len(parts)], r) \/ fnmatch(Join(parts, Slash), r)

Excluded(parts, rules) == \E k \in DOMAIN rules : RuleMatches(rules[k], parts)

ExcludeDone == args.fn = "should_exclude" /\ result.status = "returned"

\* C5: should_exclude(p) is true iff some rule matches p, a plain rule matching
\* iff it equals one whole segment of p (never a part of a segment) and a glob
\* rule iff it glob-matches the base name or the relative path of p; the
\* outcome is the same for every ordering of the rule list.
C5_ExcludeIffSomeRuleMatches ==
    ExcludeDone =>
        /\ result.value = Excluded(args.parts, args.exclude_patterns)
        /\ \A o \in Orderings(args.exclude_patterns) :
               should_exclude(args.parts, o) = result.value

\* C5 witness: ab/c.b under the rules "a", "*.b": the plain rule is only a part
\* of the segment "ab", the glob rule matches the base name.
C5_Witness ==
    /\ ExcludeDone
    /\ args.parts = <<<<"a", "b">>, <<"c", ".", "b">>>>
    /\ args.exclude_patterns = <<<<"a">>, <<"*", ".", "b">>>>
    /\ result.value = TRUE
    /\ ~should_exclude(args.parts, <<<<"a">>>>)

---------------------------------------------------------------------------
(* Claims about the archive (checked under SpecArchive) *)

ArchiveDone == args.fn = "create_source_archive" /\ result.status # "pending"

ArchiveRules ==
    IF args.exclude_patterns = NoPatterns THEN DEFAULT_EXCLUDE_PATTERNS
    ELSE args.exclude_patterns

EntrySet == {result.entries[i] : i \in DOMAIN result.entries}

EntryOf(n) == [arcname |-> Join(n.parts, Slash), data |-> n.data]

\* The regular files under the source root before the call, rules applied.
RegularFilesKept ==
    {EntryOf(n) : n \in {m \in args.tree :
                             m.kind = "file" /\ ~Excluded(m.parts, ArchiveRules)}}

\* C4 as stated: the archive holds exactly the regular files under the source
\* root that no rule excludes, each once, and no symbolic link.
C4_OnlyRegularFiles ==
    (ArchiveDone /\ result.status = "returned") =>
        /\ EntrySet = RegularFilesKept
        /\ Len(result.entries) = Cardinality(EntrySet)

\* The entries is_file() accepts when the walk runs: regular files and symbolic
\* links to regular files of the tree, and the archive file itself when the
\* output path lies under the source root.
OutputInside == IsUnder(result.value, SourceRoot)

FilesSeenKept ==
    {EntryOf(n) : n \in {m \in args.tree :
                             /\ m.kind \in {"file", "symlink_file"}
                             /\ ~(OutputInside /\ m.parts = RelParts(result.value, SourceRoot))
                             /\ ~Excluded(m.parts, ArchiveRules)}}
    \cup (IF OutputInside /\ ~Excluded(RelParts(result.value, SourceRoot), ArchiveRules)
          THEN {[arcname |-> Join(RelParts(result.value, SourceRoot), Slash),
                 data |-> ZipInProgress]}
          ELSE {})

\* C4 amended: the archive holds exactly the entries under the source root that
\* is_file() accepts (regular files, symbolic links resolving to a regular file,
\* and the archive file itself when it is written under the source root) and
\* that no rule excludes, each once under its posix-style relative path; no
\* directory, no link to a directory and no excluded file is archived, whatever
\* the order of the walk.
C4_FilesSeenByWalk ==
    (ArchiveDone /\ result.status = "returned") =>
        /\ EntrySet = FilesSeenKept
        /\ Len(result.entries) = Cardinality(EntrySet)
        /\ \A n \in args.tree :
               n.kind \in {"dir", "symlink_dir"} =>
                   \A e \in EntrySet : e.arcname # Join(n.parts, Slash)

\* C4 witness: a tree with a regular file in a directory, a link to a file and
\* an explicit rule; the archive holds a link's content and leaves a file out.
C4_Witness ==
    /\ ArchiveDone
    /\ result.status = "returned"
    /\ \E n \in args.tree : n.kind = "symlink_file" /\ EntryOf(n) \in EntrySet
    /\ \E n \in args.tree : n.kind = "file" /\ EntryOf(n) \notin EntrySet
    /\ \E n \in args.tree : n.kind = "dir"

DiskBefore == Disk(args)

DiskAfter == ApplyFs(Disk(args), result.fs)

\* The path the archive is asked to be written at: the output path of the
\* call, /tmp/source_<time>.zip when none is given (the clock of the calls
\* reads 2024-01-02 03:04:58).
RequestedOutput ==
    IF args.output_path = NoPath
    THEN <<"/", "t", "m", "p", "/", "s", "o", "u", "r", "c", "e", "_",
           "2", "0", "2", "4", "0", "1", "0", "2", "_", "0", "3", "0", "4", "5", "8",
           ".", "z", "i", "p">>
    ELSE args.output_path

\* C13: called on a source directory that does not exist, create_source_archive
\* raises the source-not-found error (FileNotFoundError) and leaves the disk as
\* it was: nothing exists at the output path afterwards and none of its parent
\* directories has been created.
C13_MissingSourceLeavesDiskAlone ==
    (ArchiveDone /\ ~args.source_exists) =>
        /\ result.status = "raised"
        /\ result.exc = "FileNotFoundError"
        /\ result.value = NoPath
        /\ result.entries = <<>>
        /\ DiskAfter = DiskBefore
        /\ \A n \in DiskAfter : n.path # RequestedOutput
        /\ \A n \in DiskAfter : IsUnder(RequestedOutput, n.path) => n \in DiskBefore

\* C13 witness: the source is missing and so is the parent directory of the
\* requested output; the call raised.
C13_Witness ==
    /\ ArchiveDone
    /\ ~args.source_exists
    /\ args.output_path = OutsideOutput
    /\ \A n \in DiskBefore : ~IsUnder(RequestedOutput, n.path)
    /\ result.status = "raised"

\* The entries of a disk at or under the source root.
SourceSide(disk) == {n \in disk : n.path = SourceRoot \/ IsUnder(n.path, SourceRoot)}

\* The only effect on the disk is the archive file at the requested path and
\* the missing parent directories of that path.
OnlyArchiveWritten ==
    /\ \A n \in DiskBefore : n.path # RequestedOutput => n \in DiskAfter
    /\ \A n \in DiskAfter \ DiskBefore :
           \/ n.path = RequestedOutput /\ n.kind = "file"
           \/ IsUnder(RequestedOutput, n.path) /\ n.kind = "dir"
    /\ result.status = "returned" =>
           \E n \in DiskAfter : n.path = RequestedOutput /\ n.kind = "file"

\* C16 as stated: the only effect is the archive file (and its parent
\* directories), and nothing at or under the source root is created, modified
\* or deleted.
C16_SourceTreeUntouched ==
    ArchiveDone =>
        /\ OnlyArchiveWritten
        /\ SourceSide(DiskAfter) = SourceSide(DiskBefore)

\* C16 amended: the only effect of create_source_archive on the disk is the
\* archive file at the output path and the missing parent directories of that
\* path; every other entry, under the source root or not, is left as it was.
\* When the output path lies under the source root, the archive file is
\* created there.
C16_OnlyTheArchiveIsWritten ==
    ArchiveDone =>
        /\ OnlyArchiveWritten
        /\ IsUnder(RequestedOutput, SourceRoot)
               \/ SourceSide(DiskAfter) = SourceSide(DiskBefore)
        /\ (result.status = "returned" /\ IsUnder(RequestedOutput, SourceRoot)) =>
               SourceSide(DiskAfter) # SourceSide(DiskBefore)

\* C16 witness: a tree with files was archived to a path under the source
\* root; the tree's entries are as before and the archive is a new entry.
C16_Witness ==
    /\ ArchiveDone
    /\ result.status = "returned"
    /\ IsUnder(RequestedOutput, SourceRoot)
    /\ \E n \in args.tree : n.kind = "file"
    /\ SourceSide(DiskBefore) \subseteq SourceSide(DiskAfter)
    /\ \E n \in SourceSide(DiskAfter) \ SourceSide(DiskBefore) : n.path = RequestedOutput

---------------------------------------------------------------------------
(* Claims about the object key (checked under SpecKey) *)

KeyDone == args.fn = "object_name" /\ result.status = "returned"

\* C9: two uploads with different deployment ids get different object keys
\* whatever their times, and two uploads with the same id at different seconds
\* get different keys.
C9_ObjectKeyInjective ==
    KeyDone =>
        /\ args.id1 # args.id2 => result.key1 # result.key2
        /\ (args.id1 = args.id2 /\ args.t1 # args.t2) => result.key1 # result.key2

\* C9 witness: the ids "d" and "d/e" (one a prefix of the other, one with a
\* slash) at different seconds.
C9_Witness ==
    /\ KeyDone
    /\ args.id1 = <<"d">>
    /\ args.id2 = <<"d", "/", "e">>
    /\ args.t1 # args.t2
    /\ result.key1 # result.key2

---------------------------------------------------------------------------
(* Claims about the pipeline (checked under Spec, C3 under SpecConc) *)

HasStep(r, name) == \E i \in DOMAIN steps[r] : steps[r][i].name = name

Failed(r) == \E i \in DOMAIN steps[r] : ~steps[r][i].ok

AllOk(history) == \A i \in DOMAIN history : history[i].ok

\* C2: a credential of either kind can be handed to create_cos_uploader: the
\* factory returns an uploader handle whenever it is called with a resolved
\* credential, so a run authenticated by OIDC exchange goes on to archive and
\* upload.
C2_EveryCredentialBuildsUploader ==
    \A r \in Runs :
        (HasStep(r, "create_cos_uploader") /\ loc[r].authenticator # NoCred) =>
            loc[r].uploader.status = "handle"

\* The archive a run is meant to upload: the regular files of its own source
\* directory that the default rules keep.
OwnArchive(r) ==
    [entries |-> {EntryOf(n) : n \in {m \in SourceTreeOf(r) :
                                          /\ m.kind = "file"
                                          /\ ~Excluded(m.parts, DEFAULT_EXCLUDE_PATTERNS)}},
     by |-> r]

\* C3: two runs for different deployment ids do not interfere, whatever the
\* interleaving: the archive a run wrote is still its own when the run uploads
\* it, and the object stored under the run's key holds exactly the files of the
\* run's own source directory.
C3_ConcurrentRunsIndependent ==
    \A r \in Runs :
        /\ pc[r] = "upload_file" =>
               /\ loc[r].zip_path \in DOMAIN tmpFiles
               /\ tmpFiles[loc[r].zip_path] = OwnArchive(r)
        /\ loc[r].cos_uri # NoPath =>
               /\ loc[r].object_name \in DOMAIN bucket
               /\ bucket[loc[r].object_name] = OwnArchive(r)

\* The failure case a failed run ended in, from the step that failed and what
\* it had done.
FailureCase(r) ==
    LET i == CHOOSE k \in DOMAIN steps[r] : ~steps[r][k].ok
        name == steps[r][i].name
    IN  CASE name = "load_config" -> "configuration"
          [] name = "get_authenticator" ->
                 (IF Count(loc[r].events, EvPost) = 0 THEN "no_credential"
                  ELSE "exchange_failure")
          [] name = "create_cos_uploader" -> "client_construction"
          [] name = "create_source_archive" -> "source_not_found"
          [] name = "upload_file" ->
                 (IF Count(loc[r].events, EvPut) = 0 THEN "file_not_found"
                  ELSE "upload_error")

ContractCases ==
    {"configuration", "no_credential", "exchange_failure", "source_not_found",
     "file_not_found", "upload_error"}

\* C6: every failure case surfaces as its own error kind: two runs that failed
\* in different cases raised exceptions of different classes.
C6_FailureCasesHaveOwnKind ==
    \A r1, r2 \in Runs :
        (/\ Failed(r1) /\ Failed(r2)
         /\ FailureCase(r1) \in ContractCases
         /\ FailureCase(r2) \in ContractCases
         /\ FailureCase(r1) # FailureCase(r2)) =>
            loc[r1].exc # loc[r2].exc

\* C7: a run whose upload fails ends with its archive still on disk, and an
\* archive is removed from disk only by the run that wrote it, as the last act
\* of a run in which every step succeeded, the object is stored and
\* cleanup_artifacts is set.
C7_ArchiveKeptUnlessSuccess ==
    [][\A r \in Runs :
           /\ (pc[r] = "upload_file" /\ pc'[r] = "done" /\ exitCode'[r] # 0) =>
                  loc[r].zip_path \in DOMAIN tmpFiles'
           /\ (loc[r].zip_path \in DOMAIN tmpFiles
               /\ loc[r].zip_path \notin DOMAIN tmpFiles') =>
                  \E q \in Runs :
                      /\ loc[q].zip_path = loc[r].zip_path
                      /\ pc[q] = "cleanup"
                      /\ pc'[q] = "done"
                      /\ exitCode'[q] = 0
                      /\ cfg[q].cleanup_artifacts
                      /\ AllOk(steps'[q])
                      /\ loc[q].object_name \in DOMAIN bucket]_vars

\* C7 witness: a run with cleanup_artifacts set whose upload failed has ended
\* and its archive is on disk.
C7_Witness ==
    \E r \in Runs :
        /\ pc[r] = "done"
        /\ exitCode[r] = 1
        /\ cfg[r].cleanup_artifacts
        /\ HasStep(r, "upload_file")
        /\ Failed(r)
        /\ loc[r].zip_path \in DOMAIN tmpFiles

StepOrder ==
    <<"load_config", "get_authenticator", "create_cos_uploader",
      "create_source_archive", "upload_file", "cleanup">>

\* C8: the steps run in the fixed order, a step starts only if every earlier
\* one succeeded, a failed step ends the run with a non-zero exit code and
\* nothing after it runs (one exchange request at most, no archive after a
\* credential or client failure, no upload after an archive failure), and the
\* run returns 0 only if every step succeeded.
C8_StepsInOrderFailFast ==
    \A r \in Runs :
        /\ Len(steps[r]) <= Len(StepOrder)
        /\ \A i \in DOMAIN steps[r] : steps[r][i].name = StepOrder[i]
        /\ \A i \in DOMAIN steps[r] : i < Len(steps[r]) => steps[r][i].ok
        /\ Failed(r) => (pc[r] = "done" /\ exitCode[r] = 1)
        /\ exitCode[r] = 0 =>
               /\ AllOk(steps[r])
               /\ Len(steps[r]) >= 5
               /\ loc[r].object_name \in DOMAIN bucket
        /\ Count(loc[r].events, EvPost) <= 1
        /\ Count(loc[r].events, EvPut) <= 1
        /\ (\E p \in DOMAIN tmpFiles : tmpFiles[p].by = r) =>
               (Len(steps[r]) >= 4 /\ \A i \in 1..4 : steps[r][i].ok)
        /\ (\E k \in DOMAIN bucket : bucket[k].by = r) =>
               (Len(steps[r]) >= 5 /\ \A i \in 1..5 : steps[r][i].ok)

\* C8 witness: a run that authenticated and built its client failed to build
\* the archive: it ended with exit code 1 and never started the upload.
C8_Witness ==
    \E r \in Runs :
        /\ pc[r] = "done"
        /\ exitCode[r] = 1
        /\ Len(steps[r]) = 4
        /\ ~steps[r][4].ok
        /\ loc[r].uploader.status = "handle"
        /\ ~HasStep(r, "upload_file")

---------------------------------------------------------------------------
(* Claims about upload_file (checked under SpecUpload) *)

UploadDone == args.fn = "upload_file" /\ result.status # "pending"

\* The last segment of a path.
FileName(path) ==
    LET cut == {i \in 0..Len(path) : i = 0 \/ path[i] = "/"}
        last == CHOOSE i \in cut : \A j \in cut : j <= i
    IN  SubSeq(path, last + 1, Len(path))

\* The key the caller asked the object to be stored under.
AskedKey == IF args.object_name = NoPath THEN FileName(args.file_path) ELSE args.object_name

\* The bytes of the local file are in the bucket under key.
StoredUnder(key) == key \in DOMAIN bucket /\ bucket[key] = LocalData

\* C14: upload_file returns a locator only after the put for that key
\* succeeded.  A local path that does not exist raises FileNotFoundError
\* without any call to storage; a put that fails raises the upload error
\* (RuntimeError) and no locator is returned; a returned locator always names
\* an object that is in the bucket.
C14_LocatorOnlyAfterPut ==
    UploadDone =>
        /\ ~args.file_exists =>
               /\ result.status = "raised"
               /\ result.exc = "FileNotFoundError"
               /\ result.events = <<>>
               /\ bucket = args.before
        /\ (args.file_exists /\ ~args.put_ok) =>
               /\ result.status = "raised"
               /\ result.exc = "RuntimeError"
               /\ result.value = NoPath
               /\ bucket = args.before
        /\ result.status = "returned" =>
               /\ Count(result.events, EvPut) = 1
               /\ StoredUnder(AskedKey)
               /\ result.value = <<"c", "o", "s", ":", "/", "/">> \o args.bucket_name \o <<"/">> \o AskedKey
        /\ result.status = "raised" => result.value = NoPath

\* C14 witness: the file is there, the put failed over an older object of the
\* same key; the call raised and the older object is still what the bucket holds.
C14_Witness ==
    /\ UploadDone
    /\ args.file_exists
    /\ args.can_open
    /\ ~args.put_ok
    /\ AskedKey \in DOMAIN args.before
    /\ result.status = "raised"
    /\ Count(result.events, EvPut) = 1
    /\ bucket[AskedKey] = OldObject

---------------------------------------------------------------------------
(* Claims about upload_source_code (checked under SpecUploadSource) *)

SourceUploadDone == args.fn = "upload_source_code" /\ result.status # "pending"

\* YYYYMMDD_HHMMSS of the t-th second after 2024-01-02 03:04:58 UTC.
ExpectedStamp(t) ==
    CASE
         t = 0 -> <<"2", "0", "2", "4", "0", "1", "0", "2", "_", "0", "3", "0", "4", "5", "8">>
      [] t = 1 -> <<"2", "0", "2", "4", "0", "1", "0", "2", "_", "0", "3", "0", "4", "5", "9">>
      [] t = 2 -> <<"2", "0", "2", "4", "0", "1", "0", "2", "_", "0", "3", "0", "5", "0", "0">>
      [] t = 3 -> <<"2", "0", "2", "4", "0", "1", "0", "2", "_", "0", "3", "0", "5", "0", "1">>
      [] t = 4 -> <<"2", "0", "2", "4", "0", "1", "0", "2", "_", "0", "3", "0", "5", "0", "2">>
      [] t = 5 -> <<"2", "0", "2", "4", "0", "1", "0", "2", "_", "0", "3", "0", "5", "0", "3">>

\* deployments/{d}/{t as YYYYMMDD_HHMMSS}_source.zip for the call's d and t
ExpectedKey ==
    <<"d", "e", "p", "l", "o", "y", "m", "e", "n", "t", "s", "/">> \o args.deployment_id \o <<"/">>
        \o ExpectedStamp(args.now) \o <<"_", "s", "o", "u", "r", "c", "e", ".", "z", "i", "p">>

\* C15: for every deployment id d, bucket b and upload time t, a successful
\* upload_source_code stores the archive under the key
\* deployments/{d}/{t as YYYYMMDD_HHMMSS}_source.zip and returns the locator
\* cos://{b}/ followed by that same key: the key of the returned locator is
\* the key the object was stored under.
C15_LocatorNamesStoredKey ==
    (SourceUploadDone /\ result.status = "returned") =>
        /\ DOMAIN bucket = {ExpectedKey}
        /\ bucket[ExpectedKey] = LocalData
        /\ result.key = ExpectedKey
        /\ result.value = <<"c", "o", "s", ":", "/", "/">> \o args.bucket_name \o <<"/">> \o ExpectedKey
        /\ SubSeq(result.value, Len(args.bucket_name) + 8, Len(result.value))
               \in DOMAIN bucket

\* C15 witness: deployment d/e uploaded to bucket b2 at 03:05:00, the archive
\* being written a second later.
C15_Witness ==
    /\ SourceUploadDone
    /\ result.status = "returned"
    /\ args.deployment_id = <<"d", "/", "e">>
    /\ args.bucket_name = <<"b", "2">>
    /\ args.now = 2
    /\ args.delay = 1
    /\ result.value = <<"c", "o", "s", ":", "/", "/", "b", "2", "/", "d", "e", "p", "l", "o", "y", "m", "e", "n", "t", "s", "/", "d", "/", "e", "/", "2", "0", "2", "4", "0", "1", "0", "2", "_", "0", "3", "0", "5", "0", "0", "_", "s", "o", "u", "r", "c", "e", ".", "z", "i", "p">>
    /\ DOMAIN bucket = {<<"d", "e", "p", "l", "o", "y", "m", "e", "n", "t", "s", "/", "d", "/", "e", "/", "2", "0", "2", "4", "0", "1", "0", "2", "_", "0", "3", "0", "5", "0", "0", "_", "s", "o", "u", "r", "c", "e", ".", "z", "i", "p">>}

====
